---- MODULE Spec2Model ----
(***************************************************************************)
(* The snapshot pipeline of NewsAggregatorV3 (src/main.py): quota-governed *)
(* feed collection, per-article enrichment, the archive navigation and the *)
(* two renderings (root document, dated archive copy) written by one run.  *)
(*                                                                         *)
(* Text is modelled as a sequence of one-character strings, so that        *)
(* parsing, formatting, stripping, sorting and concatenation are computed  *)
(* character by character as the Python code computes them.                *)
(***************************************************************************)
EXTENDS Integers, Sequences, FiniteSets, TLC

(***************************************************************************)
(* Bounds of the model.                                                    *)
(***************************************************************************)
\* Longest entry list a feed returns.
MaxEntries == 3
\* Longest text the generative call returns.
MaxTextLen == 2
\* Most files the archive directory holds before the first run.
MaxFiles == 3
\* Number of times the script is started.
MaxRuns == 2
\* Largest per-category limit and source count of a registry.
MaxLimit == 2
MaxSources == 2
\* Largest limit and number of sources of a category in SpecQuota.
MaxQuota == 6
MaxEndpoints == 5
\* Files of archives/ beyond (and short of) the navigation's cap.
MaxExtra == 2

(***************************************************************************)
(* Characters and text.                                                    *)
(***************************************************************************)
\* Code point order of the characters that occur in file names.
Ord(c) ==
  CASE c = " " -> 32 [] c = "-" -> 45 [] c = "." -> 46 [] c = "/" -> 47
    [] c = "0" -> 48 [] c = "1" -> 49 [] c = "2" -> 50 [] c = "3" -> 51
    [] c = "4" -> 52 [] c = "5" -> 53 [] c = "6" -> 54 [] c = "7" -> 55
    [] c = "8" -> 56 [] c = "9" -> 57
    [] c = "a" -> 97 [] c = "d" -> 100 [] c = "e" -> 101 [] c = "h" -> 104
    [] c = "l" -> 108 [] c = "m" -> 109 [] c = "n" -> 110 [] c = "o" -> 111
    [] c = "t" -> 116 [] c = "x" -> 120

IsDigit(c) == c \in {"0", "1", "2", "3", "4", "5", "6", "7", "8", "9"}

DigitVal(c) == Ord(c) - 48

Dig(n) ==
  CASE n = 0 -> "0" [] n = 1 -> "1" [] n = 2 -> "2" [] n = 3 -> "3"
    [] n = 4 -> "4" [] n = 5 -> "5" [] n = 6 -> "6" [] n = 7 -> "7"
    [] n = 8 -> "8" [] n = 9 -> "9"

\* Python's str < str: lexicographic by code point, a proper prefix first.
RECURSIVE StrLess(_, _)
StrLess(a, b) ==
  IF b = <<>> THEN FALSE
  ELSE IF a = <<>> THEN TRUE
  ELSE IF Ord(Head(a)) # Ord(Head(b)) THEN Ord(Head(a)) < Ord(Head(b))
  ELSE StrLess(Tail(a), Tail(b))

\* The text as a TLA+ string, for reading the model's values.
RECURSIVE Text(_)
Text(s) == IF s = <<>> THEN "" ELSE Head(s) \o Text(Tail(s))

(***************************************************************************)
(* Dates: strftime("%Y-%m-%d") and strptime(_, "%Y-%m-%d").                *)
(***************************************************************************)
IsLeap(y) == (y % 4 = 0 /\ y % 100 # 0) \/ y % 400 = 0

DaysInMonth(y, m) ==
  IF m = 2 THEN (IF IsLeap(y) THEN 29 ELSE 28)
  ELSE IF m \in {4, 6, 9, 11} THEN 30 ELSE 31

\* datetime.strftime("%Y-%m-%d") of a date with a four-digit year.
Strftime(dt) ==
  << Dig(dt.y \div 1000), Dig((dt.y \div 100) % 10), Dig((dt.y \div 10) % 10),
     Dig(dt.y % 10), "-",
     Dig(dt.m \div 10), Dig(dt.m % 10), "-",
     Dig(dt.d \div 10), Dig(dt.d % 10) >>

\* The character at position i, or "" past the end.
At(s, i) == IF i >= 1 /\ i <= Len(s) THEN s[i] ELSE ""

\* Length matched at position p by %m: 1[0-2] | 0[1-9] | [1-9]; 0 if none.
MonthLen(s, p) ==
  IF At(s, p) = "1" /\ At(s, p + 1) \in {"0", "1", "2"} THEN 2
  ELSE IF At(s, p) = "0" /\ IsDigit(At(s, p + 1)) /\ At(s, p + 1) # "0" THEN 2
  ELSE IF IsDigit(At(s, p)) /\ At(s, p) # "0" THEN 1
  ELSE 0

\* Length matched at position p by %d:
\* 3[0-1] | [1-2]\d | 0[1-9] | [1-9] | " "[1-9]; 0 if none.
DayLen(s, p) ==
  IF At(s, p) = "3" /\ At(s, p + 1) \in {"0", "1"} THEN 2
  ELSE IF At(s, p) \in {"1", "2"} /\ IsDigit(At(s, p + 1)) THEN 2
  ELSE IF At(s, p) = "0" /\ IsDigit(At(s, p + 1)) /\ At(s, p + 1) # "0" THEN 2
  ELSE IF IsDigit(At(s, p)) /\ At(s, p) # "0" THEN 1
  ELSE IF At(s, p) = " " /\ IsDigit(At(s, p + 1)) /\ At(s, p + 1) # "0" THEN 2
  ELSE 0

\* The number written by the digits (and blanks) of s[p .. p+n-1].
RECURSIVE NumAt(_, _, _)
NumAt(s, p, n) ==
  IF n = 0 THEN 0
  ELSE NumAt(s, p, n - 1) * 10
         + (IF IsDigit(s[p + n - 1]) THEN DigitVal(s[p + n - 1]) ELSE 0)

NoDate == [ok |-> FALSE, y |-> 0, m |-> 0, d |-> 0]

\* datetime.strptime(s, "%Y-%m-%d"): ok is FALSE where Python raises
\* ValueError (no match, unconverted data, year 0, day out of range).
Strptime(s) ==
  LET ml == MonthLen(s, 6)
      dp == 7 + ml
      dl == DayLen(s, dp)
  IN  IF /\ \A i \in 1..4 : IsDigit(At(s, i))
         /\ At(s, 5) = "-"
         /\ ml > 0
         /\ At(s, 6 + ml) = "-"
         /\ dl > 0
         /\ dp + dl - 1 = Len(s)
      THEN LET y  == NumAt(s, 1, 4)
               m  == NumAt(s, 6, ml)
               dd == NumAt(s, dp, dl)
           IN  IF y >= 1 /\ dd <= DaysInMonth(y, m)
               THEN [ok |-> TRUE, y |-> y, m |-> m, d |-> dd]
               ELSE NoDate
      ELSE NoDate

(***************************************************************************)
(* Optional values: None is <<>>, a present value x is <<x>>.              *)
(***************************************************************************)
None == <<>>
Some(x) == <<x>>

Min(a, b) == IF a < b THEN a ELSE b
Max(a, b) == IF a > b THEN a ELSE b

(***************************************************************************)
(* The state: one process at a time running main(), and the files.         *)
(***************************************************************************)
VARIABLES
  pc,          \* position of the process: idle, fetch, enrich, html, archive, done, exit1
  runs,        \* number of processes started so far
  api_key,     \* os.environ.get("GEMINI_API_KEY") as read by the process
  clock,       \* index into Days of the current UTC day
  today,       \* self.today
  registry,    \* FEED_SOURCES: per category its limit and its number of sources
  news_data,   \* self.news_data: per category the list of articles
  ci,          \* category the fetch or enrichment loop is at
  si,          \* source the fetch loop is at
  ai,          \* article the enrichment loop is at
  feedStatus,  \* per category and source: how its fetch ended (pending, ok,
               \* bozo, raised) and the number k of articles it appended
  genResult,   \* per category and article: what its generative call did
  dirExists,   \* archives/ exists
  dir,         \* archives/*.html: file stem -> content
  root,        \* index.html: None or Some(content)
  log          \* the side effects of the process so far, in order

vars == <<pc, runs, api_key, clock, today, registry, news_data, ci, si, ai,
          feedStatus, genResult, dirExists, dir, root, log>>

(***************************************************************************)
(* Configuration.                                                          *)
(***************************************************************************)
\* The UTC days on which the script is started.
Days == << [y |-> 2024, m |-> 1, d |-> 2], [y |-> 2024, m |-> 1, d |-> 3] >>

\* "archives/", ".html", "index.html", "../"
ArchivesDir == <<"a", "r", "c", "h", "i", "v", "e", "s", "/">>
HtmlSuffix == <<".", "h", "t", "m", "l">>
IndexHtml == <<"i", "n", "d", "e", "x", ".", "h", "t", "m", "l">>
UpDir == <<".", ".", "/">>

\* Number of navigation entries a document shows.
NavLimit == 30

\* "深度分析生成失败，请稍后重试。"
Fallback == <<"f", "a", "i", "l", "e", "d">>

Whitespace == {" "}

(***************************************************************************)
(* fetch_feeds                                                             *)
(***************************************************************************)
\* The count without the "+ 1".
articles_per_source_floor(limit, nsrc) == Max(2, limit \div nsrc)

articles_per_source(limit, nsrc) == Max(2, (limit \div nsrc) + 1)

\* What feedparser.parse and the entries of one endpoint do:
\*   raises: parse raises;  bozo: feed.bozo;  n: len(feed.entries);
\*   bad: the entry whose normalisation raises (0: none);
\*   late: it raises only at the log line after the append, its title being
\*         no string (before the append otherwise).
FeedOutcomes ==
  { o \in [raises : BOOLEAN, bozo : BOOLEAN, n : 0..MaxEntries,
           bad : 0..MaxEntries, late : BOOLEAN] :
      /\ o.bad <= o.n
      /\ o.raises => (~o.bozo /\ o.n = 0)
      /\ o.bad = 0 => ~o.late }

\* The try block of one source: how many articles it appends and how it ends.
FetchSource(o, aps) ==
  IF o.raises THEN [status |-> "raised", k |-> 0]
  ELSE IF o.bozo /\ o.n = 0 THEN [status |-> "bozo", k |-> 0]
  ELSE IF o.bad = 0 \/ o.bad > Min(o.n, aps)
       THEN [status |-> "ok", k |-> Min(o.n, aps)]
       ELSE [status |-> "raised", k |-> IF o.late THEN o.bad ELSE o.bad - 1]

\* The articles a source appends: entries 1..k, the last one with a title
\* that is no string when the source raised at its log line.
Article(s, j, is_str) ==
  [source |-> s, entry |-> j, title_is_str |-> is_str, deep_analysis |-> None]

Appends(s, o, r) ==
  [j \in 1..r.k |-> Article(s, j, ~(r.status = "raised" /\ o.late /\ j = r.k))]

\* The trim that keeps one article too many.
TrimKeepsOneMore(articles, limit) ==
  IF Len(articles) > limit + 1 THEN SubSeq(articles, 1, limit + 1) ELSE articles

\* "Trim to limit"
Trim(articles, limit) ==
  IF Len(articles) > limit THEN SubSeq(articles, 1, limit) ELSE articles

(***************************************************************************)
(* generate_deep_analysis, process_articles                                *)
(***************************************************************************)
TextChars == {" ", "a"}

Texts == UNION { [1..n -> TextChars] : n \in 0..MaxTextLen }

\* What the generative call does: raises, or returns a response whose
\* text is None or a string.
GenOutcomes ==
  {[raises |-> TRUE, text |-> None]} \cup
  {[raises |-> FALSE, text |-> None]} \cup
  {[raises |-> FALSE, text |-> Some(t)] : t \in Texts}

\* str.strip()
RECURSIVE LStrip(_)
LStrip(s) ==
  IF s # <<>> /\ Head(s) \in Whitespace THEN LStrip(Tail(s)) ELSE s

RECURSIVE RStrip(_)
RStrip(s) ==
  IF s # <<>> /\ s[Len(s)] \in Whitespace
  THEN RStrip(SubSeq(s, 1, Len(s) - 1)) ELSE s

Strip(s) == RStrip(LStrip(s))

\* Python truth of an Optional[str]
Truthy(x) == x # None /\ x[1] # <<>>

generate_deep_analysis(g) ==
  IF g.raises THEN None
  ELSE IF Truthy(g.text) THEN Some(Strip(g.text[1]))
  ELSE None

\* The fallback that replaces only a missing analysis, not an empty one.
AnalysisOrNoneOnly(analysis) ==
  IF analysis # None THEN analysis ELSE Some(Fallback)

\* analysis or "..."
AnalysisOr(analysis) == IF Truthy(analysis) THEN analysis ELSE Some(Fallback)

(***************************************************************************)
(* scan_archives                                                           *)
(***************************************************************************)
FileName(stem) == stem \o HtmlSuffix

\* sorted(glob("*.html"), reverse=True): by file name, greatest first.
RECURSIVE SortedReverse(_)
SortedReverse(S) ==
  IF S = {} THEN <<>>
  ELSE LET mx == CHOOSE x \in S :
                   \A y \in S \ {x} : StrLess(FileName(y), FileName(x))
       IN  <<mx>> \o SortedReverse(S \ {mx})

\* The try block of scan_archives: does strptime accept the stem.
ValidDate(stem) == Strptime(stem).ok

ArchiveEntry(stem) ==
  [date |-> stem, path |-> ArchivesDir \o FileName(stem), display |-> stem]

ScanFiles(files) ==
  LET kept == SelectSeq(files, ValidDate)
  IN  [i \in 1..Len(kept) |-> ArchiveEntry(kept[i])]

scan_archives ==
  IF dirExists THEN ScanFiles(SortedReverse(DOMAIN dir)) ELSE <<>>

(***************************************************************************)
(* _build_html: the navigation, the home link and the article sections.    *)
(***************************************************************************)
\* The link that is not rewritten for a document inside archives/.
LinkPathNoUp(archive, is_archive) ==
  IF archive.date = today THEN IndexHtml ELSE archive.path

LinkPath(archive, is_archive) ==
  IF archive.date = today
  THEN (IF is_archive THEN UpDir \o IndexHtml ELSE IndexHtml)
  ELSE (IF is_archive THEN UpDir \o archive.path ELSE archive.path)

HistoryItem(archive, is_archive) ==
  [href |-> LinkPath(archive, is_archive),
   display |-> archive.display,
   current |-> (archive.date = today)]

HomeLink(is_archive) == IF is_archive THEN UpDir \o IndexHtml ELSE IndexHtml

\* The categories that have articles, in registry order.
RECURSIVE Sections(_)
Sections(c) ==
  IF c > Len(news_data) THEN <<>>
  ELSE (IF news_data[c] = <<>> THEN <<>>
        ELSE << [category |-> c, articles |-> news_data[c]] >>)
       \o Sections(c + 1)

\* The rendering that shows every entry of the list.
build_html_all(archives, is_archive) ==
  [kind |-> "html",
   history_items |-> [i \in 1..Len(archives) |->
                        HistoryItem(archives[i], is_archive)],
   home_link |-> HomeLink(is_archive),
   sections |-> Sections(1)]

build_html(archives, is_archive) ==
  [kind |-> "html",
   history_items |-> [i \in 1..Min(Len(archives), NavLimit) |->
                        HistoryItem(archives[i], is_archive)],
   home_link |-> HomeLink(is_archive),
   sections |-> Sections(1)]

\* The insertion that does not look for today's entry first.
WithTodayAlways(archives) == <<ArchiveEntry(today)>> \o archives

\* generate_archive: "Add today if not already in list"
WithToday(archives) ==
  IF \E i \in 1..Len(archives) : archives[i].date = today
  THEN archives
  ELSE <<ArchiveEntry(today)>> \o archives

(***************************************************************************)
(* Files.                                                                  *)
(***************************************************************************)
\* A file written before the first run; the file open(.., 'w') left empty;
\* the file holding a proper, non-empty prefix of the text of content.
OldFile == [kind |-> "old"]
EmptyFile == [kind |-> "empty"]
PartialFile(content) == [kind |-> "partial", of |-> content]

\* open(path, 'w') and f.write: open raises; the write raises before the
\* first byte reaches the file; it raises after part of the text did.
WriteOutcomes == {"ok", "open_fails", "write_fails", "write_cut"}

\* The file after the attempt.
Written(before, content, w) ==
  CASE w = "ok" -> Some(content)
    [] w = "open_fails" -> before
    [] w = "write_fails" -> Some(EmptyFile)
    [] w = "write_cut" -> Some(PartialFile(content))

\* The write that leaves archives/ with the written file alone.
DirWrittenAlone(stem, content, w) == [x \in {stem} |-> content]

\* archives/<stem>.html after the attempt to write content to it.
DirWritten(stem, content, w) ==
  LET before == IF stem \in DOMAIN dir THEN Some(dir[stem]) ELSE None
      after  == Written(before, content, w)
  IN  IF after = None THEN dir
      ELSE [x \in DOMAIN dir \cup {stem} |->
              IF x = stem THEN after[1] ELSE dir[x]]

(***************************************************************************)
(* main(): NewsAggregatorV3() then run().                                  *)
(***************************************************************************)
\* GEMINI_API_KEY: unset, empty, set.
Keys == {None, Some(<<>>), Some(<<"k">>)}

\* The test that takes only an unset credential as missing.
MissingKeyUnsetOnly(key) == key = None

\* "if not api_key"
MissingKey(key) == ~Truthy(key)

MkdirOutcomes == {"ok", "fails"}

NoData(reg) == [c \in 1..Len(reg) |-> <<>>]
NoStatus(reg) ==
  [c \in 1..Len(reg) |-> [s \in 1..reg[c].nsrc |-> [status |-> "pending", k |-> 0]]]

\* The first category from c on that has articles, 0 if none.
RECURSIVE FirstWithArticles(_, _)
FirstWithArticles(data, c) ==
  IF c > Len(data) THEN 0
  ELSE IF data[c] # <<>> THEN c
  ELSE FirstWithArticles(data, c + 1)

\* The run that renders right after fetch_feeds.
AfterFetchRenders(data) == "html"

\* run(): the step that follows fetch_feeds, and the one after process_articles.
AfterFetch(data) == IF FirstWithArticles(data, 1) = 0 THEN "html" ELSE "enrich"
AfterProcess == "html"
AfterArchive(w) == IF w = "ok" THEN "done" ELSE "exit1"

\* The run that goes on to generate_archive whatever the write did.
AfterHtmlContinues(w) == "archive"

AfterHtml(w) == IF w = "ok" THEN "archive" ELSE "exit1"

\* main() reads the credential; __init__ raises ValueError without it,
\* else sets today and creates archives/.
Construct(keys, mkdirs, maxRuns) ==
  /\ pc \in {"idle", "done", "exit1"}
  /\ runs < maxRuns
  /\ runs' = runs + 1
  /\ \E key \in keys, day \in clock..Len(Days), mk \in mkdirs :
       /\ api_key' = key
       /\ clock' = day
       /\ news_data' = NoData(registry)
       /\ feedStatus' = NoStatus(registry)
       /\ genResult' = NoData(registry)
       /\ ai' = 0
       /\ IF MissingKey(key)
          THEN /\ pc' = "exit1"
               /\ today' = <<>>
               /\ log' = <<>>
               /\ ci' = 0 /\ si' = 0
               /\ UNCHANGED dirExists
          ELSE /\ today' = Strftime(Days[day])
               /\ log' = <<"mkdir">>
               /\ IF mk = "ok"
                  THEN /\ dirExists' = TRUE
                       /\ pc' = "fetch"
                       /\ ci' = 1 /\ si' = 1
                  ELSE /\ UNCHANGED dirExists
                       /\ pc' = "exit1"
                       /\ ci' = 0 /\ si' = 0
  /\ UNCHANGED <<registry, dir, root>>

\* fetch_feeds: one source of the category loop; after the last source of a
\* category its list is trimmed.
FetchFeed(outcomes) ==
  /\ pc = "fetch"
  /\ \E o \in outcomes :
       LET cfg  == registry[ci]
           aps  == articles_per_source(cfg.limit, cfg.nsrc)
           r    == FetchSource(o, aps)
           got  == news_data[ci] \o Appends(si, o, r)
           last == (si = cfg.nsrc)
           kept == IF last THEN Trim(got, cfg.limit) ELSE got
           data == [news_data EXCEPT ![ci] = kept]
       IN  /\ news_data' = data
           /\ feedStatus' = [feedStatus EXCEPT ![ci][si] = r]
           /\ log' = Append(log, "fetch")
           /\ IF ~last
              THEN /\ si' = si + 1
                   /\ UNCHANGED <<ci, ai, pc>>
              ELSE IF ci < Len(registry)
              THEN /\ ci' = ci + 1
                   /\ si' = 1
                   /\ UNCHANGED <<ai, pc>>
              ELSE /\ pc' = AfterFetch(data)
                   /\ si' = 0
                   /\ ci' = FirstWithArticles(data, 1)
                   /\ ai' = IF FirstWithArticles(data, 1) = 0 THEN 0 ELSE 1
  /\ UNCHANGED <<runs, api_key, clock, today, registry, genResult,
                 dirExists, dir, root>>

\* process_articles: one article of the loop. Its log line slices the
\* title before the call: a title that is no string raises there, outside
\* any try of process_articles, and run() exits with status 1.
EnrichArticle(outcomes) ==
  /\ pc = "enrich"
  /\ IF ~news_data[ci][ai].title_is_str
     THEN /\ pc' = "exit1"
          /\ UNCHANGED <<news_data, genResult, log, ci, ai>>
     ELSE \E g \in outcomes :
       LET analysis == generate_deep_analysis(g)
           more     == ai < Len(news_data[ci])
           nxt      == FirstWithArticles(news_data, ci + 1)
       IN  /\ news_data' = [news_data EXCEPT
                              ![ci][ai].deep_analysis = AnalysisOr(analysis)]
           /\ genResult' = [genResult EXCEPT ![ci] = Append(@, g)]
           /\ log' = Append(log, "generate")
           /\ IF more
              THEN /\ ai' = ai + 1
                   /\ UNCHANGED <<ci, pc>>
              ELSE IF nxt # 0
              THEN /\ ci' = nxt
                   /\ ai' = 1
                   /\ UNCHANGED pc
              ELSE /\ pc' = AfterProcess
                   /\ ci' = 0
                   /\ ai' = 0
  /\ UNCHANGED <<runs, api_key, clock, today, registry, si, feedStatus,
                 dirExists, dir, root>>

\* generate_html("index.html", is_archive=False)
GenerateHtml(writes) ==
  /\ pc = "html"
  /\ \E w \in writes :
       /\ root' = Written(root, build_html(scan_archives, FALSE), w)
       /\ pc' = AfterHtml(w)
  /\ log' = log \o <<"scan", "render", "write_root">>
  /\ UNCHANGED <<runs, api_key, clock, today, registry, news_data, ci, si, ai,
                 feedStatus, genResult, dirExists, dir>>

\* generate_archive()
GenerateArchive(writes) ==
  /\ pc = "archive"
  /\ \E w \in writes :
       /\ dir' = DirWritten(today,
                            build_html(WithToday(scan_archives), TRUE), w)
       /\ pc' = AfterArchive(w)
  /\ log' = log \o <<"scan", "render", "write_archive">>
  /\ UNCHANGED <<runs, api_key, clock, today, registry, news_data, ci, si, ai,
                 feedStatus, genResult, dirExists, root>>

(***************************************************************************)
(* Initial states: no process yet; a registry; the files found on disk.    *)
(***************************************************************************)
CategoryConfigs == [limit : 1..MaxLimit, nsrc : 1..MaxSources]

\* The registries of two categories, one of them of a single source with
\* limit 1, the other of any limit and number of sources.
Registries ==
  { r \in [1..2 -> CategoryConfigs] :
      \E c \in 1..2 : r[c] = [limit |-> 1, nsrc |-> 1] }

\* File stems found in archives/: dates as the script names them, a date
\* without zero padding, a name that is no date.
StemPool ==
  { Strftime([y |-> 2024, m |-> 1, d |-> 1]),
    Strftime([y |-> 2024, m |-> 1, d |-> 2]),
    Strftime([y |-> 2024, m |-> 1, d |-> 3]),
    Strftime([y |-> 2024, m |-> 1, d |-> 4]),
    <<"2", "0", "2", "4", "-", "1", "-", "3">>,
    <<"n", "o", "t", "-", "a", "-", "d", "a", "t", "e">> }

Directories ==
  { [x \in S |-> OldFile] : S \in {T \in SUBSET StemPool : Cardinality(T) <= MaxFiles} }

InitWith(regs, dirs, roots) ==
  /\ pc = "idle"
  /\ runs = 0
  /\ api_key = None
  /\ clock = 1
  /\ today = <<>>
  /\ registry \in regs
  /\ news_data = NoData(registry)
  /\ ci = 0 /\ si = 0 /\ ai = 0
  /\ feedStatus = NoStatus(registry)
  /\ genResult = NoData(registry)
  /\ dir \in dirs
  /\ dirExists \in (IF DOMAIN dir = {} THEN BOOLEAN ELSE {TRUE})
  /\ root \in roots
  /\ log = <<>>

(***************************************************************************)
(* Spec: one run over every registry and every feed outcome, on an empty   *)
(* archive directory.                                                      *)
(***************************************************************************)
Init == InitWith(Registries, {<<>>}, {None})

Next ==
  \/ Construct(Keys, MkdirOutcomes, 1)
  \/ FetchFeed(FeedOutcomes)
  \/ EnrichArticle({[raises |-> TRUE, text |-> None],
                    [raises |-> FALSE, text |-> Some(<<"a">>)]})
  \/ GenerateHtml(WriteOutcomes)
  \/ GenerateArchive(WriteOutcomes)

Spec == Init /\ [][Next]_vars

(***************************************************************************)
(* SpecEnrich: one run of one category whose source returns its entries,   *)
(* over every outcome of every generative call.                            *)
(***************************************************************************)
GoodFeeds == {o \in FeedOutcomes : ~o.raises /\ ~o.bozo /\ o.bad = 0}

InitEnrich == InitWith({<<[limit |-> MaxLimit, nsrc |-> 1]>>}, {<<>>}, {None})

NextEnrich ==
  \/ Construct({Some(<<"k">>)}, {"ok"}, 1)
  \/ FetchFeed(GoodFeeds)
  \/ EnrichArticle(GenOutcomes)
  \/ GenerateHtml(WriteOutcomes)
  \/ GenerateArchive(WriteOutcomes)

SpecEnrich == InitEnrich /\ [][NextEnrich]_vars

(***************************************************************************)
(* SpecNav: repeated runs, on the same day or a later one, over every      *)
(* archive directory; one article is collected and its call raises.        *)
(***************************************************************************)
InitNav ==
  InitWith({<<[limit |-> 1, nsrc |-> 1]>>}, Directories, {None, Some(OldFile)})

NextNav ==
  \/ Construct(Keys, MkdirOutcomes, MaxRuns)
  \/ FetchFeed({o \in GoodFeeds : o.n = 1})
  \/ EnrichArticle({[raises |-> TRUE, text |-> None]})
  \/ GenerateHtml(WriteOutcomes)
  \/ GenerateArchive(WriteOutcomes)

SpecNav == InitNav /\ [][NextNav]_vars

(***************************************************************************)
(* SpecMany: one run over an archive directory of about NavLimit files     *)
(* named for consecutive days, the last of them 2024-01-01, 2024-01-02 or  *)
(* 2024-01-03.                                                             *)
(***************************************************************************)
\* Day k of the run of days in which day 1 is 2023-12-01.
ManyDay(k) ==
  IF k <= 0 THEN [y |-> 2023, m |-> 11, d |-> 30 + k]
  ELSE IF k <= 31 THEN [y |-> 2023, m |-> 12, d |-> k]
  ELSE [y |-> 2024, m |-> 1, d |-> k - 31]

ManyDirectories ==
  { [x \in {Strftime(ManyDay(k)) : k \in (b - n + 1)..b} |-> OldFile] :
      b \in 32..34, n \in (NavLimit - MaxExtra)..(NavLimit + MaxExtra) }

InitMany ==
  InitWith({<<[limit |-> 1, nsrc |-> 1]>>}, ManyDirectories, {None})

NextMany ==
  \/ Construct({Some(<<"k">>)}, {"ok"}, 1)
  \/ FetchFeed({o \in GoodFeeds : o.n = 1})
  \/ EnrichArticle({[raises |-> TRUE, text |-> None]})
  \/ GenerateHtml(WriteOutcomes)
  \/ GenerateArchive(WriteOutcomes)

SpecMany == InitMany /\ [][NextMany]_vars

(***************************************************************************)
(* SpecQuota: one run of one category of any limit up to MaxQuota and any  *)
(* number of sources up to MaxEndpoints; every source answers with a feed  *)
(* of 0 to MaxQuota + 1 entries that all normalise.                        *)
(***************************************************************************)
FullFeeds ==
  { [raises |-> FALSE, bozo |-> FALSE, n |-> n, bad |-> 0, late |-> FALSE] :
      n \in 0..(MaxQuota + 1) }

InitQuota ==
  InitWith({ <<cfg>> : cfg \in [limit : 1..MaxQuota, nsrc : 1..MaxEndpoints] },
           {<<>>}, {None})

NextQuota ==
  \/ Construct({Some(<<"k">>)}, {"ok"}, 1)
  \/ FetchFeed(FullFeeds)
  \/ EnrichArticle({[raises |-> TRUE, text |-> None]})
  \/ GenerateHtml({"ok"})
  \/ GenerateArchive({"ok"})

SpecQuota == InitQuota /\ [][NextQuota]_vars

(***************************************************************************)
(* Positions of a run, read off the state.                                 *)
(***************************************************************************)
CategoryOf == 1..Len(registry)

\* Every source of category c has been consulted and its list trimmed.
CategoryDone(c) ==
  \A s \in 1..registry[c].nsrc : feedStatus[c][s].status # "pending"

\* fetch_feeds has returned.
FetchDone == \A c \in CategoryOf : CategoryDone(c)

\* process_articles has returned.
ProcessDone ==
  /\ FetchDone
  /\ \A c \in CategoryOf : Len(genResult[c]) = Len(news_data[c])

\* Number of articles the sources of category c appended before the trim.
RECURSIVE Appended(_, _)
Appended(c, s) ==
  IF s = 0 THEN 0 ELSE Appended(c, s - 1) + feedStatus[c][s].k

(***************************************************************************)
(* C1: once fetch_feeds is through a category, the category holds at most  *)
(* its limit of articles, whatever its endpoints returned or raised.       *)
(***************************************************************************)
C1_QuotaRespected ==
  \A c \in CategoryOf :
    CategoryDone(c) => Len(news_data[c]) <= registry[c].limit

\* fetch_feeds has returned and the sources of a category had appended more
\* articles than its limit, one of them by a source that then raised.
C1_Witness ==
  /\ FetchDone
  /\ \E c \in CategoryOf :
       /\ Appended(c, registry[c].nsrc) > registry[c].limit
       /\ Len(news_data[c]) = registry[c].limit
       /\ \E s \in 1..registry[c].nsrc :
            feedStatus[c][s].status = "raised" /\ feedStatus[c][s].k > 0

(***************************************************************************)
(* C2: the analysis of an article after its generative call.               *)
(***************************************************************************)
\* The call of article i of category c returned a non-empty text.
ReturnedText(g) == ~g.raises /\ g.text # None /\ g.text[1] # <<>>

\* r is t without the whitespace at its two ends.
IsStripped(r, t) ==
  \E a \in 0..Len(t) :
    /\ a + Len(r) <= Len(t)
    /\ SubSeq(t, a + 1, a + Len(r)) = r
    /\ \A k \in 1..a : t[k] \in Whitespace
    /\ \A k \in (a + Len(r) + 1)..Len(t) : t[k] \in Whitespace
    /\ r # <<>> => (r[1] \notin Whitespace /\ r[Len(r)] \notin Whitespace)

\* The run ended with exit status 1 for a reason other than a file write.
AbortedOutsideWrite ==
  /\ pc = "exit1"
  /\ ~(log # <<>> /\ log[Len(log)] \in {"write_root", "write_archive"})

\* C2 as claimed: every enriched article has a non-empty analysis, which is
\* the text its own call returned when that text is non-empty and the fixed
\* fallback marker otherwise; no call ends the run.
C2_Verbatim ==
  /\ \A c \in CategoryOf : \A i \in 1..Len(genResult[c]) :
       LET g == genResult[c][i]
           a == news_data[c][i].deep_analysis
       IN  /\ a # None /\ a[1] # <<>>
           /\ IF ReturnedText(g) THEN a = g.text ELSE a = Some(Fallback)
  /\ ~AbortedOutsideWrite

\* C2 amended: every enriched article has a non-empty analysis, which is
\* the text its own call returned with the whitespace at both ends removed,
\* when the call returned a text that is not all whitespace, and the fixed
\* fallback marker otherwise (the call raised, returned no text, an empty
\* text or a text of whitespace only); an article whose call has not been
\* made has no analysis yet, and no call ends the run.
C2_StrippedOrFallback ==
  /\ \A c \in CategoryOf : \A i \in 1..Len(news_data[c]) :
       LET a == news_data[c][i].deep_analysis
       IN  IF i <= Len(genResult[c])
           THEN LET g == genResult[c][i]
                IN  /\ a # None /\ a[1] # <<>>
                    /\ IF /\ ReturnedText(g)
                          /\ \E k \in 1..Len(g.text[1]) :
                               g.text[1][k] \notin Whitespace
                       THEN IsStripped(a[1], g.text[1])
                       ELSE a = Some(Fallback)
           ELSE a = None
  /\ ~AbortedOutsideWrite

\* The run completed with two articles: the call of the first raised, the
\* call of the second returned " a".
C2_Witness ==
  /\ pc = "done"
  /\ ProcessDone
  /\ \E c \in CategoryOf :
       /\ Len(news_data[c]) = 2
       /\ genResult[c][1].raises
       /\ news_data[c][1].deep_analysis = Some(Fallback)
       /\ genResult[c][2] = [raises |-> FALSE, text |-> Some(<<" ", "a">>)]
       /\ news_data[c][2].deep_analysis = Some(<<"a">>)

(***************************************************************************)
(* The documents the running process has written.                          *)
(***************************************************************************)
\* index.html holds the rendering of this run.
RootFresh ==
  \/ pc \in {"archive", "done"}
  \/ pc = "exit1" /\ log # <<>> /\ log[Len(log)] = "write_archive"

\* archives/<today>.html holds the rendering of this run.
ArchiveFresh == pc = "done"

\* Calendar order of two parsed dates.
DateLess(a, b) ==
  \/ a.y < b.y
  \/ a.y = b.y /\ a.m < b.m
  \/ a.y = b.y /\ a.m = b.m /\ a.d < b.d

NoDuplicateDates(items) ==
  \A i, j \in 1..Len(items) :
    i # j => Strptime(items[i].display) # Strptime(items[j].display)

(***************************************************************************)
(* C3 as claimed: no navigation rendered into a document holds two entries *)
(* of the same calendar date, whatever archives/ holds.                    *)
(***************************************************************************)
C3_OneEntryPerDate ==
  /\ RootFresh => NoDuplicateDates(root[1].history_items)
  /\ ArchiveFresh => NoDuplicateDates(dir[today].history_items)

(***************************************************************************)
(* C4: the navigation generate_archive builds from archives/ and today.    *)
(***************************************************************************)
\* The stems of archives/ that strptime accepts.
DateFiles(d) == {f \in DOMAIN d : Strptime(f).ok}

\* C4 as claimed: today's entry, marked current, comes first, followed by
\* one entry for each other file whose stem parses as a date, most recent
\* first; no entry for a stem that does not parse.
ClaimedNavigation(d, items) ==
  /\ Len(items) >= 1
  /\ items[1].display = today /\ items[1].current
  /\ \A i \in 2..Len(items) : ~items[i].current
  /\ {items[i].display : i \in 2..Len(items)} = DateFiles(d) \ {today}
  /\ Len(items) = 1 + Cardinality(DateFiles(d) \ {today})
  /\ \A i, j \in 2..Len(items) :
       i < j => ~DateLess(Strptime(items[i].display), Strptime(items[j].display))

C4_TodayFirstByDate ==
  [][(pc = "archive" /\ pc' = "done")
       => ClaimedNavigation(dir, dir'[today].history_items)]_vars

\* C4 amended: the navigation holds one entry for each file whose stem
\* strptime accepts, in descending order of file name, and none for any
\* other file; the entry whose date is today's is marked current and no
\* other is; when no file is named for today, today's entry is put first,
\* and otherwise the entry of today's file stays at its place in the order.
\* A document shows the first NavLimit entries of it.
BuiltNavigation(d, items) ==
  LET all == DateFiles(d) \cup {today}
      shown == {items[i].display : i \in 1..Len(items)}
  IN  /\ Len(items) = Min(Cardinality(all), NavLimit)
      /\ Cardinality(shown) = Len(items)
      /\ shown \subseteq all
      /\ \A i \in 1..Len(items) : items[i].current <=> items[i].display = today
      /\ today \notin DOMAIN d => items[1].display = today
      /\ \A i, j \in 1..Len(items) :
           (i < j /\ items[i].display \in DOMAIN d)
             => StrLess(FileName(items[j].display), FileName(items[i].display))
      /\ \A f \in all \ shown : \A i \in 1..Len(items) :
           items[i].display \in DOMAIN d
             => StrLess(FileName(f), FileName(items[i].display))

C4_Navigation ==
  [][(pc = "archive" /\ pc' = "done")
       => BuiltNavigation(dir, dir'[today].history_items)]_vars

\* The run of 2024-01-03 over 2024-01-01.html, 2024-01-02.html and
\* not-a-date.html wrote [2024-01-03 (current), 2024-01-02, 2024-01-01].
C4_Witness ==
  /\ pc = "done"
  /\ runs = 1
  /\ Text(today) = "2024-01-03"
  /\ {Text(f) : f \in DOMAIN dir} =
       {"2024-01-01", "2024-01-02", "2024-01-03", "not-a-date"}
  /\ LET items == dir[today].history_items
     IN  /\ Len(items) = 3
         /\ Text(items[1].display) = "2024-01-03" /\ items[1].current
         /\ Text(items[2].display) = "2024-01-02" /\ ~items[2].current
         /\ Text(items[3].display) = "2024-01-01" /\ ~items[3].current

(***************************************************************************)
(* C5 as claimed: the navigation of the root document a run writes holds   *)
(* the entry of the run's date, linking to the root document itself.       *)
(***************************************************************************)
C5_RootNavHasToday ==
  RootFresh =>
    \E i \in 1..Len(root[1].history_items) :
      LET item == root[1].history_items[i]
      IN  item.display = today /\ item.current /\ item.href = IndexHtml

(***************************************************************************)
(* C6: in the root document an entry of another date D links to            *)
(* archives/D.html and today's entry to index.html; in the archive copy    *)
(* they link to ../archives/D.html and ../index.html; the home link is     *)
(* index.html in the root document and ../index.html in the archive copy.  *)
(***************************************************************************)
LinksFrom(doc, up) ==
  /\ Text(doc.home_link) = up \o "index.html"
  /\ \A i \in 1..Len(doc.history_items) :
       LET item == doc.history_items[i]
       IN  Text(item.href) =
             IF item.display = today
             THEN up \o "index.html"
             ELSE up \o "archives/" \o Text(item.display) \o ".html"

C6_LinkTargets ==
  /\ RootFresh => LinksFrom(root[1], "")
  /\ ArchiveFresh => LinksFrom(dir[today], "../")

\* A run completed whose two documents each link a past date and today.
C6_Witness ==
  /\ pc = "done"
  /\ Text(today) = "2024-01-03"
  /\ \E i, j \in 1..Len(root[1].history_items) :
       /\ Text(root[1].history_items[i].href) = "archives/2024-01-01.html"
       /\ Text(root[1].history_items[j].href) = "index.html"
  /\ \E i, j \in 1..Len(dir[today].history_items) :
       /\ Text(dir[today].history_items[i].href) = "../archives/2024-01-01.html"
       /\ Text(dir[today].history_items[j].href) = "../index.html"

(***************************************************************************)
(* C7: a step writes no file but index.html and archives/<today>.html,     *)
(* each replaced as a whole (by the new document, or by nothing or a       *)
(* prefix of the new document when the write fails, never keeping part of  *)
(* the old content); every other file of archives/ stays, with the content *)
(* it had.                                                                 *)
(***************************************************************************)
\* file is the document doc, or what a failed write of doc leaves.
Overwritten(file, doc) == file \in {doc, EmptyFile, PartialFile(doc)}

C7_OnlyTodayWritten ==
  [][/\ DOMAIN dir \subseteq DOMAIN dir'
     /\ DOMAIN dir' \subseteq DOMAIN dir \cup {today}
     /\ \A f \in DOMAIN dir : f # today => dir'[f] = dir[f]
     /\ dir' # dir =>
          /\ pc = "archive"
          /\ Overwritten(dir'[today], build_html(WithToday(scan_archives), TRUE))
     /\ root' # root =>
          /\ pc = "html"
          /\ Overwritten(root'[1], build_html(scan_archives, FALSE))
     /\ pc' = "done" =>
          /\ root'[1].kind = "html" /\ dir'[today].kind = "html"
          /\ root'[1].sections = Sections(1)
          /\ dir'[today].sections = Sections(1)]_vars

\* Two runs completed, the second on the day after the first; the file of
\* an earlier day and the file whose name is no date are as they were.
C7_Witness ==
  /\ pc = "done"
  /\ runs = 2
  /\ Text(today) = "2024-01-03"
  /\ \E f, g, h \in DOMAIN dir :
       /\ Text(f) = "2024-01-01" /\ dir[f] = OldFile
       /\ Text(g) = "not-a-date" /\ dir[g] = OldFile
       /\ Text(h) = "2024-01-02" /\ dir[h].kind = "html"
  /\ dir[today].kind = "html"

(***************************************************************************)
(* C8 as claimed: a category whose every endpoint failed (raised, or       *)
(* reported a parse failure with no entries) holds no article; the other   *)
(* categories are still collected, and no feed failure ends the run: it    *)
(* completes with both documents written.                                  *)
(***************************************************************************)
AllFailed(c) ==
  \A s \in 1..registry[c].nsrc : feedStatus[c][s].status \in {"raised", "bozo"}

C8_AllFailedEmpty ==
  /\ \A c \in CategoryOf : AllFailed(c) => news_data[c] = <<>>
  /\ (\E c \in CategoryOf : AllFailed(c)) => ~AbortedOutsideWrite
  /\ pc = "done" =>
       /\ FetchDone
       /\ root # None /\ root[1].kind = "html"
       /\ today \in DOMAIN dir /\ dir[today].kind = "html"

(***************************************************************************)
(* C9: a process that finds the credential unset or empty ends with exit   *)
(* status 1 at once: it has fetched no feed, made no generative call, not  *)
(* created archives/ and written no file.                                  *)
(***************************************************************************)
CredentialAbsent(key) == key = None \/ key = Some(<<>>)

C9_NoWorkWithoutCredential ==
  /\ [](runs > 0 /\ CredentialAbsent(api_key)
          => /\ pc = "exit1"
             /\ log = <<>>
             /\ \A c \in CategoryOf :
                  /\ news_data[c] = <<>>
                  /\ genResult[c] = <<>>
                  /\ \A s \in 1..registry[c].nsrc :
                       feedStatus[c][s].status = "pending")
  /\ [][(runs' # runs /\ CredentialAbsent(api_key'))
          => UNCHANGED <<dirExists, dir, root>>]_vars

\* A process found the credential empty and ended with status 1; archives/
\* does not exist and index.html was not written.
C9_Witness ==
  /\ pc = "exit1"
  /\ runs > 0
  /\ api_key = Some(<<>>)
  /\ ~dirExists
  /\ root = None

(***************************************************************************)
(* C10: the side effects of a run come in a fixed order: every endpoint of *)
(* every category is consulted before the first generative call, every     *)
(* article is enriched before archives/ is scanned or anything is rendered *)
(* or written, and index.html is written before archives/<today>.html.     *)
(***************************************************************************)
Rank(tag) ==
  CASE tag = "mkdir" -> 0
    [] tag = "fetch" -> 1
    [] tag = "generate" -> 2
    [] tag \in {"scan", "render", "write_root", "write_archive"} -> 3

Count(tag) == Cardinality({i \in 1..Len(log) : log[i] = tag})

RECURSIVE TotalSources(_)
TotalSources(c) == IF c = 0 THEN 0 ELSE TotalSources(c - 1) + registry[c].nsrc

RECURSIVE TotalArticles(_)
TotalArticles(c) == IF c = 0 THEN 0 ELSE TotalArticles(c - 1) + Len(news_data[c])

C10_FixedOrder ==
  /\ \A i, j \in 1..Len(log) : i < j => Rank(log[i]) <= Rank(log[j])
  /\ Count("generate") > 0 => Count("fetch") = TotalSources(Len(registry))
  /\ (\E i \in 1..Len(log) : Rank(log[i]) = 3) =>
       /\ Count("fetch") = TotalSources(Len(registry))
       /\ Count("generate") = TotalArticles(Len(registry))
       /\ \A c \in CategoryOf : \A i \in 1..Len(news_data[c]) :
            news_data[c][i].deep_analysis # None
  /\ \A j \in 1..Len(log) :
       log[j] = "write_archive" => \E i \in 1..(j - 1) : log[i] = "write_root"

\* A run completed that consulted three endpoints and enriched two articles.
C10_Witness ==
  /\ pc = "done"
  /\ Count("fetch") = 3
  /\ Count("generate") >= 2
  /\ Count("write_root") = 1 /\ Count("write_archive") = 1

(***************************************************************************)
(* C11: the snapshots a document links.                                    *)
(***************************************************************************)
Linked(doc) == {doc.history_items[i].display : i \in 1..Len(doc.history_items)}

\* C11 as claimed: every file of archives/ whose stem parses as a date is
\* linked from the navigation of the root document and of the archive copy,
\* however many files there are.
C11_AllSnapshotsLinked ==
  /\ pc = "archive" => DateFiles(dir) \subseteq Linked(root[1])
  /\ pc = "done" => DateFiles(dir) \subseteq Linked(dir[today])

\* The links of doc over the date files: all of them up to NavLimit files,
\* else NavLimit of them, and every file left out has a smaller name than
\* every linked one that is not in head.
CappedLinks(doc, files, head) ==
  /\ Linked(doc) \subseteq files
  /\ Cardinality(Linked(doc)) = Min(Cardinality(files), NavLimit)
  /\ Len(doc.history_items) = Cardinality(Linked(doc))
  /\ \A f \in files \ Linked(doc) : \A g \in Linked(doc) \ head :
       StrLess(FileName(f), FileName(g))

\* C11 amended: a document links the first NavLimit (30) entries of its
\* navigation list. Every file whose stem parses as a date is linked when
\* there are at most NavLimit of them (today's file counted for the archive
\* copy); when there are more, exactly NavLimit are linked and every file
\* left out has a smaller name than every linked one (today's entry, put
\* first in the archive copy, aside).
C11_FirstThirtyLinked ==
  /\ pc = "archive" => CappedLinks(root[1], DateFiles(dir), {})
  /\ pc = "done" => CappedLinks(dir[today], DateFiles(dir), {today})

\* A run completed over more than NavLimit date files: the archive copy
\* links NavLimit of them and the root document leaves one out.
C11_Witness ==
  /\ pc = "done"
  /\ Cardinality(DateFiles(dir)) > NavLimit + 1
  /\ Len(dir[today].history_items) = NavLimit
  /\ Len(root[1].history_items) = NavLimit
  /\ \E f \in DateFiles(dir) : f \notin Linked(root[1]) /\ f \notin Linked(dir[today])

(***************************************************************************)
(* C12 as claimed: the navigation of each written document is ordered by   *)
(* calendar date, most recent first, whatever date-named files archives/   *)
(* holds (zero-padded or not) and whatever today is, also when a file is   *)
(* dated after today and today's entry is put first.                       *)
(***************************************************************************)
CalendarOrdered(items) ==
  \A i, j \in 1..Len(items) :
    i < j => ~DateLess(Strptime(items[i].display), Strptime(items[j].display))

C12_CalendarOrder ==
  /\ RootFresh => CalendarOrdered(root[1].history_items)
  /\ ArchiveFresh => CalendarOrdered(dir[today].history_items)

(***************************************************************************)
(* The articles of a category, by endpoint and position in its feed.       *)
(***************************************************************************)
Retained(c) ==
  [i \in 1..Len(news_data[c]) |-> <<news_data[c][i].source, news_data[c][i].entry>>]

Take(seq, n) == SubSeq(seq, 1, Min(n, Len(seq)))

Failed(c, s) == feedStatus[c][s].status \in {"raised", "bozo"}

\* The entries 1..k of each of the endpoints 1..s of category c that did
\* not fail, in endpoint order.
RECURSIVE FromOk(_, _)
FromOk(c, s) ==
  IF s = 0 THEN <<>>
  ELSE FromOk(c, s - 1) \o
       (IF feedStatus[c][s].status = "ok"
        THEN [j \in 1..feedStatus[c][s].k |-> <<s, j>>]
        ELSE <<>>)

(***************************************************************************)
(* C13 as claimed: the list a category retains is the first limit elements *)
(* of the concatenation, in endpoint order, of the first                   *)
(* articles_per_source entries of each endpoint that did not fail, in feed *)
(* order, with nothing reordered or removed; articles_per_source is 2 for  *)
(* limit 6 and 5 endpoints.                                                *)
(***************************************************************************)
C13_FirstQuotaOfOk ==
  /\ articles_per_source(6, 5) = 2
  /\ \A c \in CategoryOf :
       CategoryDone(c) =>
         /\ Retained(c) = Take(FromOk(c, registry[c].nsrc), registry[c].limit)
         /\ \A s \in 1..registry[c].nsrc :
              feedStatus[c][s].k
                <= articles_per_source(registry[c].limit, registry[c].nsrc)

(***************************************************************************)
(* C14 as claimed: an endpoint that raised, at the fetch or at any of its  *)
(* entries, or that reported a parse failure with no entries, appended no  *)
(* article and has none in its category; the category holds what the       *)
(* other endpoints give without it.                                        *)
(***************************************************************************)
C14_FailingSkipped ==
  \A c \in CategoryOf :
    /\ \A s \in 1..registry[c].nsrc :
         Failed(c, s) =>
           /\ feedStatus[c][s].k = 0
           /\ \A i \in 1..Len(news_data[c]) : news_data[c][i].source # s
    /\ CategoryDone(c) =>
         \E n \in 0..registry[c].limit :
           Retained(c) = Take(FromOk(c, registry[c].nsrc), n)

(***************************************************************************)
(* C15: a process that cannot create archives/, or cannot write index.html *)
(* or archives/<today>.html, ends with exit status 1 and takes no further  *)
(* step: after a failed write of index.html today's archive file is not    *)
(* written. A generative call that fails never ends the process.           *)
(***************************************************************************)
LastEffect == IF log = <<>> THEN "none" ELSE log[Len(log)]

C15_FatalWrites ==
  /\ [](pc = "exit1" =>
          /\ \/ MissingKey(api_key)
             \/ log = <<"mkdir">>
             \/ LastEffect \in {"write_root", "write_archive"}
             \/ \E c \in CategoryOf : \E i \in 1..Len(news_data[c]) :
                  ~news_data[c][i].title_is_str
          /\ LastEffect = "write_root" => Count("write_archive") = 0)
  /\ [][/\ pc = "exit1" => runs' = runs + 1
        /\ (runs' = runs + 1 /\ ~MissingKey(api_key') /\ ~dirExists')
             => (pc' = "exit1" /\ log' = <<"mkdir">>)
        /\ (pc = "html" /\ pc' # "exit1")
             => (pc' = "archive" /\ root' = Some(build_html(scan_archives, FALSE)))
        /\ (pc = "html" /\ pc' = "exit1")
             => /\ dir' = dir
                /\ \/ root' = root
                   \/ Overwritten(root'[1], build_html(scan_archives, FALSE))
                        /\ root'[1].kind # "html"
        /\ (pc = "archive" /\ pc' # "exit1")
             => (pc' = "done" /\ today \in DOMAIN dir'
                 /\ dir'[today] = build_html(WithToday(scan_archives), TRUE))
        /\ (pc = "enrich" /\ news_data[ci][ai].title_is_str)
             => (pc' # "exit1" /\ Len(genResult'[ci]) = Len(genResult[ci]) + 1)]_vars

\* The generative call of the run raised and the run went on; the write of
\* index.html then failed after part of the document was on disk and the
\* process ended with status 1, today's archive file not written.
C15_Witness ==
  /\ pc = "exit1"
  /\ runs = 1
  /\ LastEffect = "write_root"
  /\ root # None /\ root[1].kind = "partial"
  /\ today \notin DOMAIN dir
  /\ \E c \in CategoryOf :
       genResult[c] # <<>> /\ genResult[c][1].raises
         /\ news_data[c][1].deep_analysis = Some(Fallback)

(***************************************************************************)
(* C16: articles_per_source times the number of sources is at least the    *)
(* limit, so a category whose every source returned at least               *)
(* articles_per_source entries that all normalised retains exactly limit   *)
(* articles: the first limit of them in source order. Every source was     *)
(* fetched all the same, also one none of whose articles is retained.      *)
(***************************************************************************)
\* Every source of category c appended articles_per_source articles.
AllFull(c) ==
  \A s \in 1..registry[c].nsrc :
    /\ feedStatus[c][s].status = "ok"
    /\ feedStatus[c][s].k
         = articles_per_source(registry[c].limit, registry[c].nsrc)

C16_QuotaFilled ==
  \A c \in CategoryOf :
    /\ registry[c].limit >= 1 /\ registry[c].nsrc >= 1
    /\ articles_per_source(registry[c].limit, registry[c].nsrc) * registry[c].nsrc
         >= registry[c].limit
    /\ (CategoryDone(c) /\ AllFull(c)) =>
         /\ Len(news_data[c]) = registry[c].limit
         /\ Retained(c) = Take(FromOk(c, registry[c].nsrc), registry[c].limit)
         /\ FetchDone => Count("fetch") = TotalSources(Len(registry))

\* Limit 6 and 5 sources, each appending 2 articles: the category retains
\* 6, those of sources 1 to 3; sources 4 and 5 were fetched and none of
\* their articles is retained.
C16_Witness ==
  /\ registry = <<[limit |-> 6, nsrc |-> 5]>>
  /\ FetchDone /\ AllFull(1)
  /\ Count("fetch") = 5
  /\ feedStatus[1][4].k = 2 /\ feedStatus[1][5].k = 2
  /\ Retained(1) = << <<1, 1>>, <<1, 2>>, <<2, 1>>, <<2, 2>>, <<3, 1>>, <<3, 2>> >>

(***************************************************************************)
(* C17 as claimed: in a run that finds archives/<today>.html written by a  *)
(* run completed earlier the same day, the root document and the archive   *)
(* copy list the same dates in the same order, today's date exactly once;  *)
(* the run adds no file to archives/ and no entry to the navigation of the *)
(* archive copy it replaces.                                               *)
(***************************************************************************)
Displays(doc) == [i \in 1..Len(doc.history_items) |-> doc.history_items[i].display]

\* Number of entries of doc whose date is today's.
TodayEntries(doc) ==
  Cardinality({i \in 1..Len(doc.history_items) :
                 Strptime(doc.history_items[i].display) = Strptime(today)})

\* archives/<today>.html is the rendering of a run completed today.
RanToday == today \in DOMAIN dir /\ dir[today].kind = "html"

C17_RerunStable ==
  [][/\ (RanToday /\ pc = "html" /\ pc' = "archive")
          => TodayEntries(root'[1]) = 1
     /\ (RanToday /\ pc = "archive" /\ pc' = "done")
          => /\ Displays(dir'[today]) = Displays(root[1])
             /\ TodayEntries(dir'[today]) = 1
             /\ DOMAIN dir' = DOMAIN dir
             /\ Len(dir'[today].history_items) = Len(dir[today].history_items)]_vars

====
